---- MODULE Spec2Model ----
(***************************************************************************)
(* Drag-and-drop insertion-point engine of the theme builder:              *)
(*   - calculateInsertionPoint  (utils/insertionCalculator.ts, half-split) *)
(*   - useDragAndDrop            (hooks/useDragAndDrop.ts)                 *)
(*   - InsertionIndicator        (components/workspace), as Canvas renders *)
(*     it from the hook's dragState                                        *)
(*   - conditionalAxisRestriction (utils/dragModifiers.ts)                 *)
(*                                                                         *)
(* Indices are 0-based as in the TypeScript source; TLA+ sequences are     *)
(* 1-based, so position p of the source is element p+1 of a sequence.      *)
(* Vertical coordinates are integers (pixels).  The cursor is carried as   *)
(* cursorY2 = 2 * cursorY, so that "rect.top + rect.height / 2" is exact   *)
(* for odd heights: every comparison of the source is made on doubled      *)
(* values.                                                                 *)
(***************************************************************************)
EXTENDS Integers, Sequences, FiniteSets, TLC

(***************************** bounds ***************************************)
\* longest layout (number of canvas components) explored
MaxLayout == 3
\* largest bounding-box height explored (heights range over 1..MaxHeight)
MaxHeight == 2
\* most canvas components without a rendered element during a drag session
MaxMissing == 1
\* largest translation, in pixels on either axis, a drag transform carries
MaxTranslate == 1

(***************************** values ***************************************)
\* component ids are 1..MaxLayout; 0 stands for a null id
NullId == 0
\* null of "insertionIndex: number | null"
NullIndex == -1
\* result of Array.prototype.findIndex when nothing matches
NotFound == -1
\* "over.data.current?.index" when the drop target carries no index
Undefined == -2
\* vertical gap between stacked canvas components (space-y-2)
Gap == 1
\* top of the first canvas component
CanvasTop == 1
\* height of the dragged element's translated rect
ActiveHeight == 2

Ids == 1..MaxLayout
\* id of the draggable of a library item, and of a drop target that is no
\* canvas component
LibraryItemId == MaxLayout + 1
DropZoneId == MaxLayout + 2
CANVAS_COMPONENT == "canvas-component"
LIBRARY_COMPONENT == "library-component"
ComponentTypes == {"Heading"}
DROP_ZONE == "dropzone"
NullType == "null"
NoComponentType == "undefined"

\* all sequences of pairwise distinct ids of length n
RECURSIVE DistinctSeqs(_)
DistinctSeqs(n) ==
  IF n = 0 THEN {<<>>}
  ELSE UNION {{Append(s, id) : id \in Ids \ {s[k] : k \in 1..Len(s)}} :
              s \in DistinctSeqs(n - 1)}

Layouts == UNION {DistinctSeqs(n) : n \in 0..MaxLayout}

(************************ the rendered surface ******************************)
\* What document.querySelector / getBoundingClientRect answer for each id:
\* found = FALSE when no element carries the data-component-id, else the
\* element's rect.  While a drag is active the canvas components are frozen
\* (transform: none) in a vertical stack in list order, separated by Gap.
RECURSIVE StackTop(_, _)
StackTop(heights, k) ==
  IF k = 1 THEN CanvasTop ELSE StackTop(heights, k - 1) + heights[k - 1] + Gap

Stack(componentIds, heights, found) ==
  [id \in {componentIds[k] : k \in 1..Len(componentIds)} |->
     LET k == CHOOSE j \in 1..Len(componentIds) : componentIds[j] = id IN
     [found |-> found[k], top |-> StackTop(heights, k), height |-> heights[k]]]

Doms(componentIds) ==
  LET n == Len(componentIds) IN
  {Stack(componentIds, heights, found) :
     heights \in [1..n -> 1..MaxHeight], found \in [1..n -> BOOLEAN]}

\* largest cursor position worth sampling: just below the tallest stack
MaxCursorY == CanvasTop + MaxLayout * (MaxHeight + Gap)

(********************** calculateInsertionPoint *****************************)
Result(i, h) == [insertionIndex |-> i, hoveredComponentId |-> h]

\* mutant: the ids without an element are not filtered out
componentRects_noFilter(componentIds, dom) ==
  [k \in 1..Len(componentIds) |->
     [id |-> componentIds[k],
      top |-> dom[componentIds[k]].top,
      bottom |-> dom[componentIds[k]].top + dom[componentIds[k]].height,
      height |-> dom[componentIds[k]].height,
      centerY2 |-> 2 * dom[componentIds[k]].top + dom[componentIds[k]].height]]

\* componentIds.map(querySelector / getBoundingClientRect).filter(non-null)
componentRects(componentIds, dom) ==
  LET found == SelectSeq(componentIds, LAMBDA id : dom[id].found) IN
  [k \in 1..Len(found) |->
     [id |-> found[k],
      top |-> dom[found[k]].top,
      bottom |-> dom[found[k]].top + dom[found[k]].height,
      height |-> dom[found[k]].height,
      centerY2 |-> 2 * dom[found[k]].top + dom[found[k]].height]]

\* mutant: the centre compared with <= instead of <
isInTopHalf_inclusive(cursorY2, component) == cursorY2 <= component.centerY2

\* const isInTopHalf = cursorY < component.centerY
isInTopHalf(cursorY2, component) == cursorY2 < component.centerY2

\* mutant: the bottom half inserts one position too far
hoverResult_skipOne(i, component, cursorY2) ==
  IF cursorY2 < component.centerY2
  THEN Result(i, component.id)
  ELSE Result(i + 2, component.id)

\* mutant: the centre itself inserts before the hovered component
hoverResult_centerBefore(i, component, cursorY2) ==
  IF cursorY2 <= component.centerY2
  THEN Result(i, component.id)
  ELSE Result(i + 1, component.id)

\* "Normal case: cursor over a different component"
hoverResult(i, component, cursorY2) ==
  IF isInTopHalf(cursorY2, component)
  THEN Result(i, component.id)
  ELSE Result(i + 1, component.id)

\* mutant: the hit test has no lower edge
RECURSIVE scanRects_noBottom(_, _, _, _, _)
scanRects_noBottom(rects, i, cursorY2, draggedComponentId, length) ==
  IF i >= Len(rects) THEN Result(length, NullId)
  ELSE
    LET component == rects[i + 1] IN
    IF cursorY2 >= 2 * component.top
    THEN
      IF component.id = draggedComponentId
      THEN
        IF isInTopHalf(cursorY2, component) /\ i > 0
        THEN Result(i, component.id)
        ELSE IF ~isInTopHalf(cursorY2, component) /\ i < Len(rects) - 1
             THEN Result(i + 1, component.id)
             ELSE scanRects_noBottom(rects, i + 1, cursorY2, draggedComponentId, length)
      ELSE hoverResult(i, component, cursorY2)
    ELSE scanRects_noBottom(rects, i + 1, cursorY2, draggedComponentId, length)

\* mutant: the dragged component's own box is always skipped
RECURSIVE scanRects_skipDragged(_, _, _, _, _)
scanRects_skipDragged(rects, i, cursorY2, draggedComponentId, length) ==
  IF i >= Len(rects) THEN Result(length, NullId)
  ELSE
    LET component == rects[i + 1] IN
    IF /\ cursorY2 >= 2 * component.top /\ cursorY2 <= 2 * component.bottom
       /\ component.id # draggedComponentId
    THEN hoverResult(i, component, cursorY2)
    ELSE scanRects_skipDragged(rects, i + 1, cursorY2, draggedComponentId, length)

\* mutant: a result on the dragged component's own box names no hovered id
RECURSIVE scanRects_draggedNull(_, _, _, _, _)
scanRects_draggedNull(rects, i, cursorY2, draggedComponentId, length) ==
  IF i >= Len(rects) THEN Result(length, NullId)
  ELSE
    LET component == rects[i + 1] IN
    IF cursorY2 >= 2 * component.top /\ cursorY2 <= 2 * component.bottom
    THEN
      IF component.id = draggedComponentId
      THEN
        IF isInTopHalf(cursorY2, component) /\ i > 0
        THEN Result(i, NullId)
        ELSE IF ~isInTopHalf(cursorY2, component) /\ i < Len(rects) - 1
             THEN Result(i + 1, NullId)
             ELSE scanRects_draggedNull(rects, i + 1, cursorY2, draggedComponentId, length)
      ELSE hoverResult(i, component, cursorY2)
    ELSE scanRects_draggedNull(rects, i + 1, cursorY2, draggedComponentId, length)

\* mutant: the top half of the dragged component's own box resolves only
\* when a successor exists as well
RECURSIVE scanRects_lastFallsBack(_, _, _, _, _)
scanRects_lastFallsBack(rects, i, cursorY2, draggedComponentId, length) ==
  IF i >= Len(rects) THEN Result(length, NullId)
  ELSE
    LET component == rects[i + 1] IN
    IF cursorY2 >= 2 * component.top /\ cursorY2 <= 2 * component.bottom
    THEN
      IF component.id = draggedComponentId
      THEN
        IF isInTopHalf(cursorY2, component) /\ i > 0 /\ i < Len(rects) - 1
        THEN Result(i, component.id)
        ELSE IF ~isInTopHalf(cursorY2, component) /\ i < Len(rects) - 1
             THEN Result(i + 1, component.id)
             ELSE scanRects_lastFallsBack(rects, i + 1, cursorY2,
                                          draggedComponentId, length)
      ELSE hoverResult(i, component, cursorY2)
    ELSE scanRects_lastFallsBack(rects, i + 1, cursorY2, draggedComponentId, length)

\* the for loop over componentRects, from index i on
RECURSIVE scanRects(_, _, _, _, _)
scanRects(rects, i, cursorY2, draggedComponentId, length) ==
  IF i >= Len(rects) THEN Result(length, NullId)
  ELSE
    LET component == rects[i + 1] IN
    IF cursorY2 >= 2 * component.top /\ cursorY2 <= 2 * component.bottom
    THEN
      IF component.id = draggedComponentId
      THEN
        IF isInTopHalf(cursorY2, component) /\ i > 0
        THEN Result(i, component.id)
        ELSE IF ~isInTopHalf(cursorY2, component) /\ i < Len(rects) - 1
             THEN Result(i + 1, component.id)
             ELSE scanRects(rects, i + 1, cursorY2, draggedComponentId, length)
      ELSE hoverResult(i, component, cursorY2)
    ELSE scanRects(rects, i + 1, cursorY2, draggedComponentId, length)

\* mutant: below the stack the number of resolved boxes is returned
calculateInsertionPoint_rectsLength(cursorY2, componentIds, draggedComponentId, dom) ==
  IF Len(componentIds) = 0 THEN Result(0, NullId)
  ELSE
    LET rects == componentRects(componentIds, dom) IN
    IF Len(rects) = 0 THEN Result(0, NullId)
    ELSE IF cursorY2 < 2 * rects[1].top THEN Result(0, NullId)
    ELSE IF cursorY2 > 2 * rects[Len(rects)].bottom
         THEN Result(Len(rects), NullId)
    ELSE scanRects(rects, 0, cursorY2, draggedComponentId, Len(componentIds))

\* the function as exported: the early returns, then the scan
calculateInsertionPoint(cursorY2, componentIds, draggedComponentId, dom) ==
  IF Len(componentIds) = 0 THEN Result(0, NullId)
  ELSE
    LET rects == componentRects(componentIds, dom) IN
    IF Len(rects) = 0 THEN Result(0, NullId)
    ELSE IF cursorY2 < 2 * rects[1].top THEN Result(0, NullId)
    ELSE IF cursorY2 > 2 * rects[Len(rects)].bottom
         THEN Result(Len(componentIds), NullId)
    ELSE scanRects(rects, 0, cursorY2, draggedComponentId, Len(componentIds))

(********************** conditionalAxisRestriction **************************)
\* Transform of @dnd-kit/utilities: translation and scale on both axes
Transforms ==
  [x : (-MaxTranslate)..MaxTranslate, y : (-MaxTranslate)..MaxTranslate,
   scaleX : {1, 2}, scaleY : {1, 2}]

\* what a modifier is handed as "active": null, a draggable without data,
\* one whose data ref is empty, or one whose data carry a type (or none)
NoModifierActive == [present |-> FALSE, data |-> "undefined", type |-> NullType]
ModifierActives ==
  {NoModifierActive,
   [present |-> TRUE, data |-> "undefined", type |-> NullType],
   [present |-> TRUE, data |-> "empty", type |-> NullType]} \cup
  {[present |-> TRUE, data |-> "current", type |-> t] :
     t \in {CANVAS_COMPONENT, LIBRARY_COMPONENT, NullType}}

\* mutant: reordering locks both axes
conditionalAxisRestriction_bothAxes(transform, act) ==
  IF ~act.present \/ act.data # "current" THEN transform
  ELSE
    LET isReordering == act.type = CANVAS_COMPONENT IN
    IF isReordering THEN [transform EXCEPT !.x = 0, !.y = 0] ELSE transform

\* the modifier: vertical-only movement when reordering, free movement else
conditionalAxisRestriction(transform, act) ==
  IF ~act.present \/ act.data # "current" THEN transform
  ELSE
    LET isReordering == act.type = CANVAS_COMPONENT IN
    IF isReordering THEN [transform EXCEPT !.x = 0] ELSE transform

(*************************** state ******************************************)
VARIABLES
  layout,            \* ids of the canvas components, in order (currentLayout)
  hasUnsavedChanges, \* the workspace's dirty flag
  dragState,         \* the DragState record held by useState
  active,            \* dnd-kit's active draggable, NoActive between sessions
  calls,             \* onComponentAdd / onComponentReorder calls of the last handler
  toast,             \* toast raised by the last handler
  last,              \* the last handler run and the event it received
  calcIn,            \* arguments of a direct calculateInsertionPoint call
  calcOut,           \* its result
  indicator,         \* the InsertionIndicator instance: its state and last commit
  surface,           \* the rendered surface as the last drag-move sample met it
  closure,           \* the dragState the handlers of the last commit closed over
  modifier           \* a direct conditionalAxisRestriction call and its result

sessionVars == <<layout, hasUnsavedChanges, dragState, active, calls, toast, last,
                 indicator, surface, closure>>
calcVars == <<calcIn, calcOut>>
vars == <<layout, hasUnsavedChanges, dragState, active, calls, toast, last,
          calcIn, calcOut, indicator, surface, closure, modifier>>

(**************************** DragState *************************************)
IdleDragState ==
  [isDragging |-> FALSE,
   draggedComponentType |-> NullType,
   draggedId |-> NullId,
   isReordering |-> FALSE,
   isOverCanvas |-> FALSE,
   insertionIndex |-> NullIndex,
   hoveredComponentId |-> NullId]

\* the record handleDragEnd sets when the drop has no target
droppedOutsideState == IdleDragState
\* mutant: the reset after a drop keeps the session's insertion index
dragEndState_keepsIndex ==
  [IdleDragState EXCEPT !.insertionIndex = dragState.insertionIndex]

\* the record handleDragEnd sets after a drop on a target
dragEndState == IdleDragState
\* mutant: the cancel resets the collision fields and the flag only
dragCancelState_partialReset ==
  [dragState EXCEPT !.isDragging = FALSE, !.isOverCanvas = FALSE,
                    !.insertionIndex = NullIndex, !.hoveredComponentId = NullId]

\* the record handleDragCancel sets
dragCancelState == IdleDragState

NoActive == [id |-> NullId, type |-> NullType, componentType |-> NoComponentType]
NoOver == [id |-> NullId, type |-> NullType, index |-> Undefined]
NoRect == [present |-> FALSE, top |-> 0, height |-> 0]
NoToast == "none"
TOAST_DROP_OUTSIDE == "Drop component on the canvas to add it"

\* draggables the DndContext holds: every canvas component (useSortable) and
\* every library item
Actives(order) ==
  {[id |-> order[k], type |-> CANVAS_COMPONENT, componentType |-> NoComponentType] :
     k \in 1..Len(order)} \cup
  {[id |-> LibraryItemId, type |-> LIBRARY_COMPONENT, componentType |-> t] :
     t \in ComponentTypes}

\* drop targets an event can report: none, a canvas component (its data carry
\* its position), or another droppable with or without an index in its data
Overs(order) ==
  {NoOver} \cup
  {[id |-> order[k], type |-> CANVAS_COMPONENT, index |-> k - 1] : k \in 1..Len(order)} \cup
  {[id |-> DropZoneId, type |-> DROP_ZONE, index |-> i] :
     i \in {Undefined} \cup 0..Len(order)}

\* active.rect.current.translated: null, or the rect of the dragged element,
\* its centre anywhere from above the stack to below it
Translateds(order) ==
  {NoRect} \cup
  {[present |-> TRUE, top |-> t, height |-> ActiveHeight] :
     t \in (CanvasTop - ActiveHeight)..(CanvasTop + Len(order) * (ActiveHeight + Gap))}

\* DragMoveEvent.delta is a Translate object, never absent
Deltas == {TRUE}

\* rendered surfaces sampled during a session: components as tall as the
\* dragged element, at most MaxMissing of them without an element
SessionDoms(order) ==
  {Stack(order, [k \in 1..Len(order) |-> ActiveHeight], found) :
     found \in {f \in [1..Len(order) -> BOOLEAN] :
                 Cardinality({k \in 1..Len(order) : ~f[k]}) <= MaxMissing}}

\* drop targets of a drag-move sample.  handleDragMove reads nothing of the
\* target but its type, so one canvas component and one other droppable stand
\* for all of them.
MoveOvers(order) ==
  {o \in Overs(order) : o = NoOver \/ o.index = 0 \/ o.index = Undefined}

\* what one drag-move callback is handed: the event (over, delta, translated
\* rect) and the rendered surface.  A sample whose drop target is no canvas
\* component never reads the surface, so the fully rendered one stands for all.
SamplesOn(order, doms) ==
  {[over |-> over, delta |-> delta, translated |-> translated, dom |-> dom] :
     over \in {o \in MoveOvers(order) : o.type = CANVAS_COMPONENT}, delta \in Deltas,
     translated \in Translateds(order), dom \in doms} \cup
  {[over |-> over, delta |-> delta, translated |-> translated,
    dom |-> Stack(order, [k \in 1..Len(order) |-> ActiveHeight],
                  [k \in 1..Len(order) |-> TRUE])] :
     over \in {o \in MoveOvers(order) : o.type # CANVAS_COMPONENT}, delta \in Deltas,
     translated \in {NoRect, [present |-> TRUE, top |-> CanvasTop,
                              height |-> ActiveHeight]}}

\* the samples of a session on any of its surfaces
Samples(order) == SamplesOn(order, SessionDoms(order))

(************************** handleDragStart *********************************)
\* mutant: the test of the source type is inverted
dragStartState_reorderingInverted(act) ==
  LET componentType == act.componentType
      dragType == act.type
  IN
  [isDragging |-> TRUE,
   draggedComponentType |->
     IF componentType # NoComponentType THEN componentType ELSE dragType,
   draggedId |-> act.id,
   isReordering |-> dragType # CANVAS_COMPONENT,
   isOverCanvas |-> FALSE,
   insertionIndex |-> NullIndex,
   hoveredComponentId |-> NullId]

\* the record handleDragStart sets
dragStartState(act) ==
  LET componentType == act.componentType
      dragType == act.type
  IN
  [isDragging |-> TRUE,
   draggedComponentType |->
     IF componentType # NoComponentType THEN componentType ELSE dragType,
   draggedId |-> act.id,
   isReordering |-> dragType = CANVAS_COMPONENT,
   isOverCanvas |-> FALSE,
   insertionIndex |-> NullIndex,
   hoveredComponentId |-> NullId]

(*************************** handleDragMove *********************************)
\* the locals isOverCanvas, insertionIndex, hoveredComponentId of one sample
moveSample(order, isReordering, act, over, delta, translated, dom) ==
  LET isOverCanvas == over.type = CANVAS_COMPONENT IN
  IF isOverCanvas /\ delta /\ translated.present
  THEN
    LET cursorY2 == 2 * translated.top + translated.height
        result == calculateInsertionPoint(
                    cursorY2, order,
                    IF isReordering THEN act.id ELSE NullId, dom)
    IN [isOverCanvas |-> isOverCanvas,
        insertionIndex |-> result.insertionIndex,
        hoveredComponentId |-> result.hoveredComponentId]
  ELSE [isOverCanvas |-> isOverCanvas,
        insertionIndex |-> NullIndex,
        hoveredComponentId |-> NullId]

\* mutant: the updater compares the collision flag only
moveUpdate_collisionOnly(prev, sample) ==
  IF prev.isOverCanvas # sample.isOverCanvas
  THEN [prev EXCEPT !.isOverCanvas = sample.isOverCanvas,
                    !.insertionIndex = sample.insertionIndex,
                    !.hoveredComponentId = sample.hoveredComponentId]
  ELSE prev

\* mutant: the updater keeps the previous index when the sample has none
moveUpdate_keepIndex(prev, sample) ==
  [prev EXCEPT !.isOverCanvas = sample.isOverCanvas,
               !.insertionIndex = IF sample.insertionIndex = NullIndex
                                  THEN prev.insertionIndex
                                  ELSE sample.insertionIndex,
               !.hoveredComponentId = sample.hoveredComponentId]

\* mutant: the updater keeps the hovered id when the sample has none
moveUpdate_keepHovered(prev, sample) ==
  [prev EXCEPT !.isOverCanvas = sample.isOverCanvas,
               !.insertionIndex = sample.insertionIndex,
               !.hoveredComponentId = IF sample.hoveredComponentId = NullId
                                      THEN prev.hoveredComponentId
                                      ELSE sample.hoveredComponentId]

\* the updater passed to setDragState
moveUpdate(prev, sample) ==
  IF \/ prev.isOverCanvas # sample.isOverCanvas
     \/ prev.insertionIndex # sample.insertionIndex
     \/ prev.hoveredComponentId # sample.hoveredComponentId
  THEN [prev EXCEPT !.isOverCanvas = sample.isOverCanvas,
                    !.insertionIndex = sample.insertionIndex,
                    !.hoveredComponentId = sample.hoveredComponentId]
  ELSE prev

(**************************** handleDragEnd *********************************)
\* layout.findIndex((item) => item.id === id)
findIndex(order, id) ==
  IF \E k \in 1..Len(order) : order[k] = id
  THEN (CHOOSE k \in 1..Len(order) :
          order[k] = id /\ \A j \in 1..(k - 1) : order[j] # id) - 1
  ELSE NotFound

\* mutant: the insertion index is used without the shift for the removal
reorderNewIndex_noShift(insertionIndex, oldIndex, order, over) ==
  IF insertionIndex # NullIndex
  THEN insertionIndex
  ELSE findIndex(order, over.id)

\* newIndex of the reordering branch
reorderNewIndex(insertionIndex, oldIndex, order, over) ==
  IF insertionIndex # NullIndex
  THEN IF insertionIndex > oldIndex THEN insertionIndex - 1 ELSE insertionIndex
  ELSE findIndex(order, over.id)

\* mutant: the index of the drop target's data wins over the insertion index
libraryDropIndex_overFirst(insertionIndex, over) ==
  IF over.index # Undefined THEN over.index
  ELSE IF insertionIndex # NullIndex THEN insertionIndex ELSE Undefined

\* mutant: no fall-back to the drop target's data
libraryDropIndex_noFallback(insertionIndex, over) ==
  IF insertionIndex # NullIndex THEN insertionIndex ELSE Undefined

\* mutant: the library item is inserted one position after the insertion index
libraryDropIndex_afterIndex(insertionIndex, over) ==
  IF insertionIndex # NullIndex THEN insertionIndex + 1 ELSE over.index

\* dropIndex of the library branch
libraryDropIndex(insertionIndex, over) ==
  IF insertionIndex # NullIndex THEN insertionIndex ELSE over.index

\* mutant: the guard lets a move onto the same index through
shouldReorder_noSameCheck(oldIndex, newIndex) ==
  oldIndex # NotFound /\ newIndex # NotFound

\* mutant: the dragged id is not required to be in the layout
shouldReorder_noFoundCheck(oldIndex, newIndex) ==
  newIndex # NotFound /\ oldIndex # newIndex

\* the guard of the onComponentReorder call
shouldReorder(oldIndex, newIndex) ==
  oldIndex # NotFound /\ newIndex # NotFound /\ oldIndex # newIndex

ReorderCall(from, to) ==
  [fn |-> "onComponentReorder", fromIndex |-> from, toIndex |-> to]
AddCall(type, at) ==
  [fn |-> "onComponentAdd", componentType |-> type, atIndex |-> at]

\* mutant: the branch for a drop without target does not return
dragEndCalls_noReturn(order, insertionIndex, act, over) ==
  IF act.type = CANVAS_COMPONENT
  THEN
    LET oldIndex == findIndex(order, act.id)
        newIndex == reorderNewIndex(insertionIndex, oldIndex, order, over)
    IN IF oldIndex # NotFound /\ newIndex # NotFound /\ oldIndex # newIndex
       THEN <<ReorderCall(oldIndex, newIndex)>>
       ELSE <<>>
  ELSE
    LET componentType == act.componentType
        dropIndex == libraryDropIndex(insertionIndex, over)
    IN IF componentType # NoComponentType /\ dropIndex # Undefined
       THEN <<AddCall(componentType, dropIndex)>>
       ELSE <<>>

\* the callbacks handleDragEnd invokes, in order
dragEndCalls(order, insertionIndex, act, over) ==
  IF over = NoOver THEN <<>>
  ELSE IF act.type = CANVAS_COMPONENT
  THEN
    LET oldIndex == findIndex(order, act.id)
        newIndex == reorderNewIndex(insertionIndex, oldIndex, order, over)
    IN IF shouldReorder(oldIndex, newIndex)
       THEN <<ReorderCall(oldIndex, newIndex)>>
       ELSE <<>>
  ELSE
    LET componentType == act.componentType
        dropIndex == libraryDropIndex(insertionIndex, over)
    IN IF componentType # NoComponentType /\ dropIndex # Undefined
       THEN <<AddCall(componentType, dropIndex)>>
       ELSE <<>>

\* mutant: the notice is raised for every drop without target
dragEndToast_anySource(act, over) ==
  IF over = NoOver THEN TOAST_DROP_OUTSIDE ELSE NoToast

\* the toast of the "dropped outside" branch
dragEndToast(act, over) ==
  IF over = NoOver /\ act.type # CANVAS_COMPONENT THEN TOAST_DROP_OUTSIDE ELSE NoToast

(****************** the workspace behind the callbacks **********************)
\* start index of Array.prototype.splice: negative counts from the end,
\* beyond the end means the end
SpliceStart(order, i) ==
  IF i < 0 THEN (IF Len(order) + i < 0 THEN 0 ELSE Len(order) + i)
  ELSE IF i > Len(order) THEN Len(order) ELSE i

\* order.splice(i, 1)
RemoveAt(order, i) ==
  LET at == SpliceStart(order, i) IN
  IF at >= Len(order) THEN order
  ELSE [k \in 1..(Len(order) - 1) |-> IF k <= at THEN order[k] ELSE order[k + 1]]

\* order.splice(i, 0, x)
InsertAt(order, i, x) ==
  LET at == SpliceStart(order, i) IN
  [k \in 1..(Len(order) + 1) |->
     IF k <= at THEN order[k] ELSE IF k = at + 1 THEN x ELSE order[k - 1]]

\* move the entry at fromIndex to toIndex: remove, then insert
reorderComponent(order, fromIndex, toIndex) ==
  IF fromIndex < 0 \/ fromIndex >= Len(order) THEN order
  ELSE InsertAt(RemoveAt(order, fromIndex), toIndex, order[fromIndex + 1])

\* id the workspace gives a new entry
freshId(order) ==
  CHOOSE id \in Ids : id \notin {order[k] : k \in 1..Len(order)} /\
    \A other \in Ids : other \notin {order[k] : k \in 1..Len(order)} => id <= other

\* splice a new entry into the order at atIndex
addComponent(order, atIndex) == InsertAt(order, atIndex, freshId(order))

RECURSIVE applyCalls(_, _)
applyCalls(order, cs) ==
  IF cs = <<>> THEN order
  ELSE applyCalls(
         IF Head(cs).fn = "onComponentReorder"
         THEN reorderComponent(order, Head(cs).fromIndex, Head(cs).toIndex)
         ELSE addComponent(order, Head(cs).atIndex),
         Tail(cs))

(************************** InsertionIndicator ******************************)
\* top of the element the indicator measures against
\* (element.parentElement?.parentElement)
ContainerTop == 0

\* a pixel offset, carried doubled like the cursor; absent = null
Offset(y2) == [present |-> TRUE, y2 |-> y2]
NoOffset == [present |-> FALSE, y2 |-> 0]

\* calculatePosition of the effect.  "8px spacing" is the gap between two
\* components, "4px" half of it.
calculatePosition(insertionIndex, order, dom) ==
  IF Len(order) = 0 \/ insertionIndex = 0
  THEN
    LET rendered == componentRects(order, dom) IN
    IF Len(rendered) > 0
    THEN Offset(2 * (rendered[1].top - ContainerTop) - 2 * Gap)
    ELSE Offset(0)
  ELSE
    LET componentBeforeIndex == insertionIndex - 1 IN
    IF /\ componentBeforeIndex >= 0 /\ componentBeforeIndex < Len(order)
       /\ dom[order[componentBeforeIndex + 1]].found
    THEN LET rect == dom[order[componentBeforeIndex + 1]] IN
         Offset(2 * (rect.top + rect.height - ContainerTop) + Gap)
    ELSE IF /\ insertionIndex >= Len(order) /\ Len(order) > 0
            /\ dom[order[Len(order)]].found
    THEN LET rect == dom[order[Len(order)]] IN
         Offset(2 * (rect.top + rect.height - ContainerTop) + Gap)
    ELSE NoOffset

\* the props Canvas hands to InsertionIndicator
IndicatorProps(state, order) ==
  [insertionIndex |-> state.insertionIndex,
   layout |-> order,
   isDragging |-> state.isDragging,
   draggedComponentId |-> state.draggedId]

\* no instance: before the first commit, and while Canvas renders the
\* placeholder of an empty layout instead
Unmounted ==
  [mounted |-> FALSE,
   props |-> IndicatorProps(IdleDragState, <<>>),
   indicatorY |-> NoOffset,
   renderedY |-> NoOffset,
   effectPending |-> FALSE]

\* what the component returns: null, or the bar at top: indicatorY px
indicatorOutput(isDragging, indicatorY) ==
  IF ~isDragging \/ ~indicatorY.present THEN NoOffset ELSE indicatorY

\* the bar of the last commit
Shown == indicatorOutput(indicator.props.isDragging, indicator.renderedY)

\* the value the effect passes to setIndicatorY
effectPosition(props, indicatorY, dom) ==
  IF ~props.isDragging \/ props.insertionIndex = NullIndex
  THEN NoOffset
  ELSE calculatePosition(props.insertionIndex, props.layout, dom)

(***************************** actions **************************************)
Triple(s) ==
  [isOverCanvas |-> s.isOverCanvas,
   insertionIndex |-> s.insertionIndex,
   hoveredComponentId |-> s.hoveredComponentId]

\* the record of the last handler run: the event it received (over, whether
\* the translated rect was present, active), the insertionIndex it read from
\* dragState, the layout and dirty flag it started from, and for a move
\* sample what the sample yields from a fresh session (alone), what a
\* second delivery of the same sample yields (again), and whether the sample
\* had the cursor on the dragged component's own box (own)
Last(op, over, translated, act, insertionIndex, alone, again) ==
  [op |-> op, over |-> over, hasRect |-> translated.present, active |-> act,
   insertionIndex |-> insertionIndex, layout |-> layout,
   dirty |-> hasUnsavedChanges, alone |-> alone, again |-> again, own |-> FALSE]

\* the cursor of a sample handed to calculateInsertionPoint lies in the box of
\* the dragged canvas component and in the box of no other component
OnOwnBox(ev, act) ==
  LET cursorY2 == 2 * ev.translated.top + ev.translated.height
      holds(id) == /\ ev.dom[id].found
                   /\ cursorY2 >= 2 * ev.dom[id].top
                   /\ cursorY2 <= 2 * (ev.dom[id].top + ev.dom[id].height)
  IN
  /\ ev.over.type = CANVAS_COMPONENT
  /\ ev.translated.present
  /\ act.type = CANVAS_COMPONENT
  /\ act.id \in DOMAIN ev.dom
  /\ holds(act.id)
  /\ \A id \in DOMAIN ev.dom \ {act.id} : ~holds(id)

NoCalc == [cursorY2 |-> 0, componentIds |-> <<>>, draggedComponentId |-> NullId,
           dom |-> <<>>, called |-> FALSE]
NoCalcResult == Result(NullIndex, NullId)
NoSurface == <<>>
NoTransform == [x |-> 0, y |-> 0, scaleX |-> 1, scaleY |-> 1]
NoModifier == [transform |-> NoTransform, active |-> NoModifierActive,
               out |-> NoTransform, called |-> FALSE]

HandleDragStart ==
  /\ active = NoActive
  /\ \E act \in Actives(layout) :
       /\ act.type = LIBRARY_COMPONENT => Len(layout) < MaxLayout
       /\ active' = act
       /\ dragState' = dragStartState(act)
       /\ last' = Last("start", NoOver, NoRect, act, NullIndex,
                       Triple(dragStartState(act)), dragStartState(act))
  /\ calls' = <<>>
  /\ toast' = NoToast
  /\ UNCHANGED <<layout, hasUnsavedChanges, calcIn, calcOut, indicator, surface,
                 closure, modifier>>

\* handleDragMove as created by a render that saw the DragState seen, called
\* with a sample taken on one of the surfaces doms.  The body reads
\* dragState.isReordering of its render; the updater passed to setDragState
\* gets the current state.
HandleDragMoveIn(seen, doms) ==
  /\ active # NoActive
  /\ \E ev \in SamplesOn(layout, doms) :
       LET sample == moveSample(layout, seen.isReordering, active,
                                ev.over, ev.delta, ev.translated, ev.dom)
           next == moveUpdate(dragState, sample)
       IN
       /\ dragState' = next
       /\ last' = [Last("move", [NoOver EXCEPT !.type = ev.over.type],
                        ev.translated, active, NullIndex,
                        Triple(moveUpdate(dragStartState(active), sample)),
                        moveUpdate(next, sample))
                     EXCEPT !.own = OnOwnBox(ev, active)]
  /\ calls' = <<>>
  /\ toast' = NoToast
  /\ UNCHANGED <<layout, hasUnsavedChanges, active, calcIn, calcOut, indicator,
                 closure, modifier>>

\* handleDragMove of a render that saw the current state
HandleDragMove ==
  /\ HandleDragMoveIn(dragState, SessionDoms(layout))
  /\ UNCHANGED surface

\* handleDragEnd as created by a render that saw the DragState seen: the
\* insertion index is read from the dragState of that render
HandleDragEndIn(seen) ==
  /\ active # NoActive
  /\ \E over \in Overs(layout) :
       LET insertionIndex == seen.insertionIndex
           cs == dragEndCalls(layout, insertionIndex, active, over)
       IN
       /\ calls' = cs
       /\ layout' = applyCalls(layout, cs)
       /\ hasUnsavedChanges' = (hasUnsavedChanges \/ cs # <<>>)
       /\ toast' = dragEndToast(active, over)
       /\ dragState' = (IF over = NoOver THEN droppedOutsideState ELSE dragEndState)
       /\ last' = Last("end", over, NoRect, active, insertionIndex,
                       Triple(IdleDragState), IdleDragState)
  /\ active' = NoActive
  /\ UNCHANGED <<calcIn, calcOut, indicator, surface, closure, modifier>>

\* handleDragEnd of a render that saw the current state
HandleDragEnd == HandleDragEndIn(dragState)

HandleDragCancel ==
  /\ active # NoActive
  /\ dragState' = dragCancelState
  /\ active' = NoActive
  /\ calls' = <<>>
  /\ toast' = NoToast
  /\ last' = Last("cancel", NoOver, NoRect, active, NullIndex,
                  Triple(IdleDragState), IdleDragState)
  /\ UNCHANGED <<layout, hasUnsavedChanges, calcIn, calcOut, indicator, surface,
                 closure, modifier>>

\* React commits a render of Canvas: the indicator is rendered from the
\* committed dragState and layout and its own state.  The effect of the
\* previous commit has run by then; the effect of this commit is scheduled
\* when the instance is new or one of its dependencies changed.
IndicatorRender ==
  LET props == IndicatorProps(dragState, layout) IN
  /\ ~indicator.effectPending
  /\ IF Len(layout) = 0
     THEN /\ indicator.mounted
          /\ indicator' = Unmounted
     ELSE IF ~indicator.mounted
     THEN indicator' = [mounted |-> TRUE, props |-> props, indicatorY |-> NoOffset,
                        renderedY |-> NoOffset, effectPending |-> TRUE]
     ELSE /\ props # indicator.props \/ indicator.indicatorY # indicator.renderedY
          /\ indicator' = [indicator EXCEPT
                             !.props = props,
                             !.renderedY = indicator.indicatorY,
                             !.effectPending = (props # indicator.props)]
  /\ UNCHANGED <<layout, hasUnsavedChanges, dragState, active, calls, toast, last,
                 calcIn, calcOut, surface, closure, modifier>>

\* the useEffect callback of the last commit runs, with the props of that
\* commit, and measures the surface as the sample that led to it met it
IndicatorEffect ==
  /\ indicator.effectPending
  /\ indicator' = [indicator EXCEPT
                     !.indicatorY = effectPosition(indicator.props,
                                                   indicator.indicatorY, surface),
                     !.effectPending = FALSE]
  /\ UNCHANGED <<layout, hasUnsavedChanges, dragState, active, calls, toast, last,
                 calcIn, calcOut, surface, closure, modifier>>

Init ==
  /\ layout \in Layouts
  /\ indicator = Unmounted
  /\ surface = NoSurface
  /\ closure = IdleDragState
  /\ modifier = NoModifier
  /\ hasUnsavedChanges = FALSE
  /\ dragState = IdleDragState
  /\ active = NoActive
  /\ calls = <<>>
  /\ toast = NoToast
  /\ last = Last("init", NoOver, NoRect, NoActive, NullIndex,
                 Triple(IdleDragState), IdleDragState)
  /\ calcIn = NoCalc
  /\ calcOut = NoCalcResult

Next ==
  \/ HandleDragStart
  \/ HandleDragMove
  \/ HandleDragEnd
  \/ HandleDragCancel

Spec == Init /\ [][Next]_vars

\* a commit is due: the indicator as last committed differs from what the
\* committed dragState, layout and indicator state render to
RenderDue ==
  IF Len(layout) = 0 THEN indicator.mounted
  ELSE \/ ~indicator.mounted
       \/ IndicatorProps(dragState, layout) # indicator.props
       \/ indicator.indicatorY # indicator.renderedY

\* React has nothing left to do: the DndContext calls the next handler from
\* an event or effect of its own, after the commit and the passive effects
\* the previous handler's update led to
Quiescent == ~RenderDue /\ ~indicator.effectPending

\* the DndContext callbacks (onDragStart, onDragMove, onDragEnd,
\* onDragCancel) as React schedules them.  Sessions are explored on a layout
\* that no drop has changed yet.  A drag-move sample meets the surface as it
\* is rendered at that moment.
OnDragStart == Quiescent /\ ~hasUnsavedChanges /\ HandleDragStart
OnDragMove ==
  /\ Quiescent
  /\ \E dom \in SessionDoms(layout) :
       /\ HandleDragMoveIn(dragState, {dom})
       /\ surface' = dom
OnDragEnd == Quiescent /\ HandleDragEnd
OnDragCancel == Quiescent /\ HandleDragCancel

\* the layouts a page starts with, up to the names of the ids
RenderInit ==
  /\ Init
  /\ layout \in {[k \in 1..n |-> k] : n \in 0..MaxLayout}

\* the handlers together with React's commits and effects
RenderNext ==
  \/ OnDragStart
  \/ OnDragMove
  \/ OnDragEnd
  \/ OnDragCancel
  \/ IndicatorRender
  \/ IndicatorEffect

SpecRender == RenderInit /\ [][RenderNext]_vars

(************* the handlers and the commits that refresh them ***************)
\* WorkspaceView re-renders: useDragAndDrop re-creates the four handlers
\* (plain functions, closed over the dragState of this render) and the
\* DndContext takes them as its new props
Commit ==
  /\ closure # dragState
  /\ closure' = dragState
  /\ UNCHANGED <<layout, hasUnsavedChanges, dragState, active, calls, toast, last,
                 calcIn, calcOut, indicator, surface, modifier>>

\* the DndContext calls the handlers of the last commit, whether or not the
\* update of the previous handler has been committed
StaleDragStart == ~hasUnsavedChanges /\ HandleDragStart
StaleDragMove ==
  /\ HandleDragMoveIn(closure, SessionDoms(layout))
  /\ UNCHANGED surface
StaleDragEnd == HandleDragEndIn(closure)
StaleDragCancel == HandleDragCancel

ClosureNext ==
  \/ StaleDragStart
  \/ StaleDragMove
  \/ StaleDragEnd
  \/ StaleDragCancel
  \/ Commit

SpecClosure == RenderInit /\ [][ClosureNext]_vars

(****************** handleDragEnd called on its own *************************)
\* draggables an event can name: those of the DndContext, and a canvas
\* component whose id the layout does not hold
DropActives(order) ==
  Actives(order) \cup
  {[id |-> id, type |-> CANVAS_COMPONENT, componentType |-> NoComponentType] :
     id \in Ids \ {order[k] : k \in 1..Len(order)}}

\* a session about to end: any layout, any draggable, any insertion index the
\* samples of the session can have left
DropInit ==
  /\ layout \in Layouts
  /\ \E act \in DropActives(layout), r \in {NullIndex} \cup 0..Len(layout) :
       /\ act.type = LIBRARY_COMPONENT => Len(layout) < MaxLayout
       /\ active = act
       /\ dragState = [dragStartState(act) EXCEPT !.insertionIndex = r,
                                                  !.isOverCanvas = (r # NullIndex)]
  /\ indicator = Unmounted
  /\ surface = NoSurface
  /\ closure = IdleDragState
  /\ modifier = NoModifier
  /\ hasUnsavedChanges = FALSE
  /\ calls = <<>>
  /\ toast = NoToast
  /\ last = Last("init", NoOver, NoRect, NoActive, NullIndex,
                 Triple(IdleDragState), IdleDragState)
  /\ calcIn = NoCalc
  /\ calcOut = NoCalcResult

DropNext == HandleDragEnd

SpecDrop == DropInit /\ [][DropNext]_vars

(************ calculateInsertionPoint called on its own *********************)
Calculate ==
  /\ ~calcIn.called
  /\ calcIn' = [calcIn EXCEPT !.called = TRUE]
  /\ calcOut' = calculateInsertionPoint(calcIn.cursorY2, calcIn.componentIds,
                                        calcIn.draggedComponentId, calcIn.dom)
  /\ UNCHANGED <<sessionVars, modifier>>

CalcInit ==
  /\ \E ids \in {[k \in 1..n |-> k] : n \in 0..MaxLayout} :
       \E dom \in Doms(ids), c \in 0..(2 * MaxCursorY), d \in {NullId} \cup Ids :
         calcIn = [cursorY2 |-> c, componentIds |-> ids, draggedComponentId |-> d,
                   dom |-> dom, called |-> FALSE]
  /\ calcOut = NoCalcResult
  /\ indicator = Unmounted
  /\ surface = NoSurface
  /\ closure = IdleDragState
  /\ modifier = NoModifier
  /\ layout = <<>>
  /\ hasUnsavedChanges = FALSE
  /\ dragState = IdleDragState
  /\ active = NoActive
  /\ calls = <<>>
  /\ toast = NoToast
  /\ last = Last("init", NoOver, NoRect, NoActive, NullIndex,
                 Triple(IdleDragState), IdleDragState)

CalcNext == Calculate

SpecCalc == CalcInit /\ [][CalcNext]_vars

(********** conditionalAxisRestriction called on its own ********************)
Restrict ==
  /\ ~modifier.called
  /\ modifier' = [modifier EXCEPT
                    !.out = conditionalAxisRestriction(modifier.transform,
                                                       modifier.active),
                    !.called = TRUE]
  /\ UNCHANGED <<sessionVars, calcIn, calcOut>>

ModifierInit ==
  /\ \E t \in Transforms, act \in ModifierActives :
       modifier = [transform |-> t, active |-> act, out |-> NoTransform,
                   called |-> FALSE]
  /\ calcIn = NoCalc
  /\ calcOut = NoCalcResult
  /\ indicator = Unmounted
  /\ surface = NoSurface
  /\ closure = IdleDragState
  /\ layout = <<>>
  /\ hasUnsavedChanges = FALSE
  /\ dragState = IdleDragState
  /\ active = NoActive
  /\ calls = <<>>
  /\ toast = NoToast
  /\ last = Last("init", NoOver, NoRect, NoActive, NullIndex,
                 Triple(IdleDragState), IdleDragState)

ModifierNext == Restrict

SpecModifier == ModifierInit /\ [][ModifierNext]_vars

(***************************************************************************)
(*                               Claims                                    *)
(***************************************************************************)
IdsOf(order) == {order[k] : k \in 1..Len(order)}
\* 0-based position of id in an order of distinct ids
PositionOf(order, id) == CHOOSE p \in 0..(Len(order) - 1) : order[p + 1] = id
\* order with x spliced in at 0-based position k
SplicedAt(order, k, x) == SubSeq(order, 1, k) \o <<x>> \o SubSeq(order, k + 1, Len(order))
\* order without its element at 0-based position p
Without(order, p) == SubSeq(order, 1, p) \o SubSeq(order, p + 2, Len(order))

\* a drop on a target, of a canvas item that is in the layout
CanvasDrop ==
  /\ last.op = "end"
  /\ last.over # NoOver
  /\ last.active.type = CANVAS_COMPONENT
  /\ last.active.id \in IdsOf(last.layout)
\* a drop on a target, of a library item
LibraryDrop ==
  /\ last.op = "end"
  /\ last.over # NoOver
  /\ last.active.type = LIBRARY_COMPONENT

\* C1: index shift on move.  For a canvas-item drop with insertion index r
\* and the dragged item at position o, the target is r-1 when r > o and r
\* otherwise, and the layout after the drop is the one obtained by inserting
\* the dragged entry at position r of the original order and then deleting
\* its original occurrence.
C1_IndexShift ==
  (CanvasDrop /\ last.insertionIndex # NullIndex) =>
    LET o == PositionOf(last.layout, last.active.id)
        r == last.insertionIndex
        target == IF r > o THEN r - 1 ELSE r
        inserted == SplicedAt(last.layout, r, last.active.id)
    IN /\ calls = (IF target = o THEN <<>> ELSE <<ReorderCall(o, target)>>)
       /\ layout = Without(inserted, IF r <= o THEN o + 1 ELSE o)

\* [A,B,C], drag A, r = 2 gives [B,A,C]
C1_Witness ==
  /\ CanvasDrop
  /\ last.layout = <<1, 2, 3>>
  /\ last.active.id = 1
  /\ last.insertionIndex = 2
  /\ calls = <<ReorderCall(0, 1)>>
  /\ layout = <<2, 1, 3>>

\* the first resolved box whose closed interval holds the cursor
C2_Resolved == SelectSeq(calcIn.componentIds, LAMBDA id : calcIn.dom[id].found)
C2_Hits ==
  {i \in 0..(Len(C2_Resolved) - 1) :
     LET box == calcIn.dom[C2_Resolved[i + 1]] IN
     /\ calcIn.cursorY2 >= 2 * box.top
     /\ calcIn.cursorY2 <= 2 * (box.top + box.height)}
C2_First == CHOOSE i \in C2_Hits : \A j \in C2_Hits : i <= j
C2_Case ==
  /\ calcIn.called
  /\ C2_Hits # {}
  /\ C2_Resolved[C2_First + 1] # calcIn.draggedComponentId

C3_IndexInRange ==
  (calcIn.called /\ Len(calcIn.componentIds) > 0) =>
    /\ calcOut.insertionIndex >= 0
    /\ calcOut.insertionIndex <= Len(calcIn.componentIds)

\* a hovered result at the end of a list, one id without a box, one dragged
C3_Witness ==
  /\ calcIn.called
  /\ Len(calcIn.componentIds) >= 2
  /\ \E id \in IdsOf(calcIn.componentIds) : ~calcIn.dom[id].found
  /\ calcIn.draggedComponentId \in IdsOf(calcIn.componentIds)
  /\ calcOut.hoveredComponentId # NullId
  /\ calcOut.insertionIndex + 1 = Len(calcIn.componentIds)

\* the target index handleDragEnd computes for a canvas drop
C4_Target ==
  LET o == PositionOf(last.layout, last.active.id)
      r == last.insertionIndex
  IN IF r # NullIndex THEN (IF r > o THEN r - 1 ELSE r)
     ELSE IF last.over.id \in IdsOf(last.layout)
          THEN PositionOf(last.layout, last.over.id)
          ELSE NotFound

\* C4: a canvas-item drop whose computed target equals the dragged item's
\* index issues no callback, leaves the layout order as it was and does not
\* mark it dirty.
C4_SamePositionNoOp ==
  (CanvasDrop /\ C4_Target = PositionOf(last.layout, last.active.id)) =>
    /\ calls = <<>>
    /\ layout = last.layout
    /\ hasUnsavedChanges = last.dirty

\* the middle item of three dropped just below itself (r = o + 1)
C4_Witness ==
  /\ CanvasDrop
  /\ Len(last.layout) = 3
  /\ PositionOf(last.layout, last.active.id) = 1
  /\ last.insertionIndex = 2
  /\ calls = <<>>
  /\ layout = last.layout

\* C5: onComponentAdd / onComponentReorder are invoked by no drag-start,
\* drag-move, drag-cancel or drag-end without drop target, and a drag-end
\* invokes at most one of them, once.
C5_ReconcileOnlyAtDrop ==
  /\ last.op \in {"init", "start", "move", "cancel"} =>
       calls = <<>> /\ layout = last.layout
  /\ (last.op = "end" /\ last.over = NoOver) =>
       calls = <<>> /\ layout = last.layout
  /\ Len(calls) <= 1

\* a drop without target at the end of a session that had an insertion index
C5_Witness ==
  /\ last.op = "end"
  /\ last.over = NoOver
  /\ last.insertionIndex # NullIndex
  /\ calls = <<>>

\* C6: after handleDragEnd (any branch) and after handleDragCancel the drag
\* state is the initial idle record.
C6_EndsIdle ==
  last.op \in {"end", "cancel"} =>
    /\ ~dragState.isDragging
    /\ dragState.draggedComponentType = NullType
    /\ dragState.draggedId = NullId
    /\ ~dragState.isReordering
    /\ ~dragState.isOverCanvas
    /\ dragState.insertionIndex = NullIndex
    /\ dragState.hoveredComponentId = NullId

\* a drop on a target after samples had set an insertion index
C6_Witness ==
  /\ last.op = "end"
  /\ last.over # NoOver
  /\ last.insertionIndex # NullIndex
  /\ dragState.insertionIndex = NullIndex
  /\ ~dragState.isDragging

\* C7: after a drag-move sample the triple (isOverCanvas, insertionIndex,
\* hoveredComponentId) is what that sample alone produces, a second delivery
\* of the sample changes nothing, and the sample changes none of isDragging,
\* draggedId, draggedComponentType, isReordering.
C7_LastSampleWins ==
  [][last'.op = "move" =>
       /\ Triple(dragState') = last'.alone
       /\ last'.again = dragState'
       /\ dragState'.isDragging = dragState.isDragging
       /\ dragState'.draggedId = dragState.draggedId
       /\ dragState'.draggedComponentType = dragState.draggedComponentType
       /\ dragState'.isReordering = dragState.isReordering]_vars

\* a sample off the canvas after one that had resolved an index
C7_Witness ==
  /\ last.op = "move"
  /\ dragState.isDragging
  /\ dragState.isReordering
  /\ ~dragState.isOverCanvas
  /\ dragState.insertionIndex = NullIndex
  /\ last.again = dragState

\* C8 as stated: insertionIndex is null exactly when isOverCanvas is false.
C8_Original ==
  (dragState.insertionIndex = NullIndex) <=> ~dragState.isOverCanvas

\* C8, amended: insertionIndex is null whenever isOverCanvas is false; while
\* isOverCanvas is true it is null exactly when the last sample carried no
\* translated rect; and it is always the value of the last sample, none left
\* over from an earlier sample or session.
C8_IndexNullOffCanvas ==
  /\ ~dragState.isOverCanvas => dragState.insertionIndex = NullIndex
  /\ dragState.isOverCanvas =>
       /\ last.op = "move"
       /\ (dragState.insertionIndex = NullIndex) <=> ~last.hasRect
  /\ last.op = "move" => dragState.insertionIndex = last.alone.insertionIndex
  /\ last.op # "move" => dragState.insertionIndex = NullIndex

\* over a canvas component with no translated rect: over the canvas, no index
C8_Witness ==
  /\ last.op = "move"
  /\ ~last.hasRect
  /\ dragState.isOverCanvas
  /\ dragState.insertionIndex = NullIndex

\* C9: a library-item drop on a target with insertion index k issues exactly
\* onComponentAdd(componentType, k), k in 0..layout.length, and the order
\* becomes old[0..k) + new entry + old[k..N).
C9_InsertFromLibrary ==
  (LibraryDrop /\ last.insertionIndex # NullIndex) =>
    LET k == last.insertionIndex
        old == last.layout
    IN /\ calls = <<AddCall(last.active.componentType, k)>>
       /\ k >= 0 /\ k <= Len(old)
       /\ Len(layout) = Len(old) + 1
       /\ layout[k + 1] \notin IdsOf(old)
       /\ Without(layout, k) = old

\* a new entry spliced between two existing ones
C9_Witness ==
  /\ LibraryDrop
  /\ last.insertionIndex = 1
  /\ Len(last.layout) = 2
  /\ Len(layout) = 3
  /\ layout[1] = last.layout[1]
  /\ layout[3] = last.layout[2]

\* C10 as stated: a library-item drop with a null insertion index issues no
\* onComponentAdd and leaves the layout unchanged, drop target or not.
C10_Original ==
  (last.op = "end" /\ last.active.type = LIBRARY_COMPONENT
     /\ last.insertionIndex = NullIndex) =>
    calls = <<>> /\ layout = last.layout

\* C10, amended: a library-item drop with a null insertion index is a no-op
\* when there is no drop target or the target's data carry no index;
\* otherwise it issues onComponentAdd(componentType, index of the target's
\* data).
C10_NullIndexFallsBack ==
  (last.op = "end" /\ last.active.type = LIBRARY_COMPONENT
     /\ last.insertionIndex = NullIndex) =>
    IF last.over = NoOver \/ last.over.index = Undefined
    THEN calls = <<>> /\ layout = last.layout
    ELSE /\ calls = <<AddCall(last.active.componentType, last.over.index)>>
         /\ Without(layout, last.over.index) = last.layout

\* a library item dropped on the second canvas component, no index resolved
C10_Witness ==
  /\ LibraryDrop
  /\ last.insertionIndex = NullIndex
  /\ last.over.type = CANVAS_COMPONENT
  /\ last.over.index = 1
  /\ calls = <<AddCall(last.active.componentType, 1)>>

\* the resolved boxes of a direct call, in list order
C11_Rects == componentRects(calcIn.componentIds, calcIn.dom)

\* C11: outside the stack.  With at least one resolved box, a cursor strictly
\* above the first resolved box's top gives {0, null}, and a cursor strictly
\* below the last resolved box's bottom gives {componentIds.length, null}: the
\* length of the whole list, also when some ids have no box.
C11_OutsideStack ==
  (calcIn.called /\ Len(C11_Rects) > 0) =>
    /\ calcIn.cursorY2 < 2 * C11_Rects[1].top => calcOut = Result(0, NullId)
    /\ calcIn.cursorY2 > 2 * C11_Rects[Len(C11_Rects)].bottom =>
         calcOut = Result(Len(calcIn.componentIds), NullId)

\* below the last resolved box of a three-item list with one id unresolved
C11_Witness ==
  /\ calcIn.called
  /\ Len(calcIn.componentIds) = 3
  /\ Len(C11_Rects) = 2
  /\ calcIn.cursorY2 > 2 * C11_Rects[2].bottom
  /\ calcOut = Result(3, NullId)

\* C12: fail-safe default.  When componentIds is empty or none of its ids
\* has an element, the result is {0, null} for every cursor and dragged id.
C12_FailSafeDefault ==
  (calcIn.called /\ \A id \in IdsOf(calcIn.componentIds) : ~calcIn.dom[id].found) =>
    calcOut = Result(0, NullId)

\* three ids, none with an element, the cursor where the second one would be,
\* one of them dragged
C12_Witness ==
  /\ calcIn.called
  /\ Len(calcIn.componentIds) = 3
  /\ \A id \in IdsOf(calcIn.componentIds) : ~calcIn.dom[id].found
  /\ calcIn.draggedComponentId \in IdsOf(calcIn.componentIds)
  /\ calcIn.cursorY2 >= 2 * calcIn.dom[calcIn.componentIds[2]].top
  /\ calcIn.cursorY2 <= 2 * calcIn.dom[calcIn.componentIds[2]].top
                          + 2 * calcIn.dom[calcIn.componentIds[2]].height
  /\ calcOut = Result(0, NullId)

\* the cursor of a direct call lies in the closed interval of the box of id
C13_Holds(id) ==
  /\ calcIn.cursorY2 >= 2 * calcIn.dom[id].top
  /\ calcIn.cursorY2 <= 2 * (calcIn.dom[id].top + calcIn.dom[id].height)

\* C13: a non-null hoveredComponentId is a member of componentIds, has an
\* element, and the closed interval [top, bottom] of its box holds the cursor.
C13_HoveredHoldsCursor ==
  (calcIn.called /\ calcOut.hoveredComponentId # NullId) =>
    /\ calcOut.hoveredComponentId \in IdsOf(calcIn.componentIds)
    /\ calcIn.dom[calcOut.hoveredComponentId].found
    /\ C13_Holds(calcOut.hoveredComponentId)

\* the last of three hovered on its bottom edge, the first without an element
C13_Witness ==
  /\ calcIn.called
  /\ Len(calcIn.componentIds) = 3
  /\ ~calcIn.dom[calcIn.componentIds[1]].found
  /\ calcOut.hoveredComponentId = calcIn.componentIds[3]
  /\ calcIn.cursorY2 = 2 * (calcIn.dom[calcIn.componentIds[3]].top
                            + calcIn.dom[calcIn.componentIds[3]].height)

\* resolved positions whose box has its centre exactly at the cursor and is
\* not the dragged one
C14_AtCenter ==
  {i \in 0..(Len(C11_Rects) - 1) :
     /\ calcIn.cursorY2 = C11_Rects[i + 1].centerY2
     /\ C11_Rects[i + 1].id # calcIn.draggedComponentId}

C15_Case ==
  /\ calcIn.called
  /\ Len(calcIn.componentIds) = 3
  /\ calcIn.draggedComponentId = calcIn.componentIds[1]
  /\ calcIn.dom[calcIn.componentIds[1]].found
  /\ C13_Holds(calcIn.componentIds[1])

\* C15 as stated: anywhere inside A's own box the result is {3, null}.
C15_Original == C15_Case => calcOut = Result(3, NullId)

\* C15, amended: strictly above A's centre the result is the fallback
\* {3, null}; from the centre down it is {1, A} while B or C has a box, and
\* the fallback {3, null} when A's box is the only one.
C15_SelfDragFallback ==
  C15_Case =>
    LET A == calcIn.componentIds[1] IN
    IF calcIn.cursorY2 < C11_Rects[1].centerY2 \/ Len(C11_Rects) = 1
    THEN calcOut = Result(3, NullId)
    ELSE calcOut = Result(1, A)

\* the top half of A's box with B and C rendered: the scan passes A, finds
\* the cursor in no other box and falls back to the list length
C15_Witness ==
  /\ C15_Case
  /\ Len(C11_Rects) = 3
  /\ calcIn.cursorY2 > 2 * C11_Rects[1].top
  /\ calcIn.cursorY2 < C11_Rects[1].centerY2
  /\ calcOut = Result(3, NullId)

\* resolved positions, neither first nor last, of the dragged component's box
\* when it holds the cursor
C16_Middle ==
  {i \in 1..(Len(C11_Rects) - 2) :
     /\ C11_Rects[i + 1].id = calcIn.draggedComponentId
     /\ C13_Holds(C11_Rects[i + 1].id)}

\* C16 as stated: with the cursor in the box of the dragged component, neither
\* first nor last, the result does not name the dragged id as hovered.
C16_Original ==
  (calcIn.called /\ C16_Middle # {}) =>
    calcOut.hoveredComponentId # calcIn.draggedComponentId

\* C16, amended: with the cursor in the box of the dragged component, neither
\* the first nor the last resolved box, the function resolves on that box:
\* {i, dragged id} above the centre and {i+1, dragged id} from the centre on.
C16_ResolvesOnOwnBox ==
  calcIn.called =>
    \A i \in C16_Middle :
      calcOut = (IF calcIn.cursorY2 < C11_Rects[i + 1].centerY2
                 THEN Result(i, calcIn.draggedComponentId)
                 ELSE Result(i + 1, calcIn.draggedComponentId))

\* the middle one of three dragged, the cursor in the top half of its box
C16_Witness ==
  /\ calcIn.called
  /\ 1 \in C16_Middle
  /\ calcIn.cursorY2 < C11_Rects[2].centerY2
  /\ calcOut = Result(1, calcIn.draggedComponentId)

\* a session ended without a drop: cancelled, or dropped on no target
C17_EndedOutside ==
  \/ last.op = "cancel"
  \/ last.op = "end" /\ last.over = NoOver

\* C17 as stated: a drag-cancel and a drag-end without drop target raise the
\* "dropped outside" notice, for canvas items as for library items.
C17_Original == C17_EndedOutside => toast = TOAST_DROP_OUTSIDE

\* C17, amended: the notice is raised exactly by a drag-end without drop
\* target of a library item; a canvas item dropped on no target and a
\* cancelled drag raise none.  In all three cases the layout is unchanged and
\* the drag state idle.
C17_NoticeForLibraryDropOutside ==
  /\ (toast = TOAST_DROP_OUTSIDE) <=>
       (last.op = "end" /\ last.over = NoOver /\ last.active.type # CANVAS_COMPONENT)
  /\ toast \in {NoToast, TOAST_DROP_OUTSIDE}
  /\ C17_EndedOutside => (layout = last.layout /\ dragState = IdleDragState)

\* a library item dropped on no target after a sample had resolved an index
C17_Witness ==
  /\ last.op = "end"
  /\ last.over = NoOver
  /\ last.active.type = LIBRARY_COMPONENT
  /\ last.insertionIndex # NullIndex
  /\ toast = TOAST_DROP_OUTSIDE

\* C18: after a drag-start the record is Active: isDragging, draggedId the
\* active id, isReordering exactly for a canvas component, isOverCanvas false,
\* insertionIndex and hoveredComponentId null, whatever sessions came before.
C18_StartYieldsActive ==
  last.op = "start" =>
    /\ dragState.isDragging
    /\ dragState.draggedId = last.active.id
    /\ dragState.draggedId = active.id
    /\ dragState.isReordering <=> (last.active.type = CANVAS_COMPONENT)
    /\ ~dragState.isOverCanvas
    /\ dragState.insertionIndex = NullIndex
    /\ dragState.hoveredComponentId = NullId

\* a canvas item picked up after an earlier session ended in a drop that
\* changed the layout
C18_Witness ==
  /\ last.op = "start"
  /\ hasUnsavedChanges
  /\ last.active.type = CANVAS_COMPONENT
  /\ dragState.isReordering
  /\ dragState.draggedId = layout[Len(layout)]

\* C19: in every state between handler calls the triple (isOverCanvas,
\* insertionIndex, hoveredComponentId) is that of one sample: a hovered id
\* comes with an insertion index and isOverCanvas, and after a drag-move the
\* three fields are the ones its sample alone yields.
C19_NoHalfUpdate ==
  /\ dragState.hoveredComponentId # NullId =>
       (dragState.insertionIndex # NullIndex /\ dragState.isOverCanvas)
  /\ last.op = "move" => Triple(dragState) = last.alone
  /\ last.op # "move" => Triple(dragState) = Triple(IdleDragState)

\* a sample that hovers the dragged component itself
C19_Witness ==
  /\ last.op = "move"
  /\ dragState.isReordering
  /\ dragState.hoveredComponentId = dragState.draggedId
  /\ dragState.insertionIndex # NullIndex
  /\ dragState.isOverCanvas

\* C20 as stated: in every commit in which no drag is active or the insertion
\* index is null the indicator renders no bar.
C20_Original ==
  (indicator.mounted /\
     (~indicator.props.isDragging \/ indicator.props.insertionIndex = NullIndex)) =>
    ~Shown.present

\* resolved positions of the dragged component's box when it holds the cursor
C25_Own ==
  {i \in 0..(Len(C11_Rects) - 1) :
     /\ C11_Rects[i + 1].id = calcIn.draggedComponentId
     /\ C13_Holds(C11_Rects[i + 1].id)}

\* C25: own box with a neighbour on that side.  With the cursor in the box of
\* the dragged component, the i-th resolved box: from the centre on, with a
\* resolved box after it, the result is {i+1, dragged id}; above the centre,
\* with a resolved box before it, the result is {i, dragged id}.
C25_OwnBoxWithNeighbour ==
  calcIn.called =>
    \A i \in C25_Own :
      /\ (calcIn.cursorY2 >= C11_Rects[i + 1].centerY2 /\ i < Len(C11_Rects) - 1) =>
           calcOut = Result(i + 1, calcIn.draggedComponentId)
      /\ (calcIn.cursorY2 < C11_Rects[i + 1].centerY2 /\ i > 0) =>
           calcOut = Result(i, calcIn.draggedComponentId)

\* the last of three dragged, the cursor in the top half of its box
C25_Witness ==
  /\ calcIn.called
  /\ Len(C11_Rects) = 3
  /\ 2 \in C25_Own
  /\ calcIn.cursorY2 < C11_Rects[3].centerY2
  /\ calcOut = Result(2, calcIn.draggedComponentId)

\* a direct call on a list whose ids all have a box, nothing dragged
C27_Case ==
  /\ calcIn.called
  /\ calcIn.draggedComponentId = NullId
  /\ Len(C11_Rects) = Len(calcIn.componentIds)

\* C27 as stated: monotonicity.  With every id resolved and no dragged id, no
\* cursor further up yields a larger insertion index, and a cursor in the gap
\* between box i and box i+1 yields insertion index i+1.
C27_Original ==
  C27_Case =>
    /\ \A c \in 0..calcIn.cursorY2 :
         calculateInsertionPoint(c, calcIn.componentIds, NullId,
                                 calcIn.dom).insertionIndex
           <= calcOut.insertionIndex
    /\ \A i \in 0..(Len(C11_Rects) - 2) :
         (/\ calcIn.cursorY2 > 2 * C11_Rects[i + 1].bottom
          /\ calcIn.cursorY2 < 2 * C11_Rects[i + 2].top) =>
           calcOut.insertionIndex = i + 1

\* C28 as stated: no shift by missing geometry.  A non-null hovered id h comes
\* with insertion index p or p+1, p the position of h in componentIds.
C28_Original ==
  (calcIn.called /\ calcOut.hoveredComponentId # NullId) =>
    LET p == PositionOf(calcIn.componentIds, calcOut.hoveredComponentId) IN
    calcOut.insertionIndex \in {p, p + 1}

\* C22: conditionalAxisRestriction.  When the active item's data give the type
\* 'canvas-component' the returned transform has x = 0 and every other field
\* of the input; for any other type, and when active, its data or the data's
\* current value is missing, the input transform is returned unchanged.
C22_AxisRestriction ==
  modifier.called =>
    IF /\ modifier.active.present
       /\ modifier.active.data = "current"
       /\ modifier.active.type = CANVAS_COMPONENT
    THEN /\ modifier.out.x = 0
         /\ modifier.out.y = modifier.transform.y
         /\ modifier.out.scaleX = modifier.transform.scaleX
         /\ modifier.out.scaleY = modifier.transform.scaleY
    ELSE modifier.out = modifier.transform

\* a canvas component dragged diagonally: the horizontal part is dropped
C22_Witness ==
  /\ modifier.called
  /\ modifier.active.type = CANVAS_COMPONENT
  /\ modifier.transform.x # 0
  /\ modifier.transform.y # 0
  /\ modifier.out = [modifier.transform EXCEPT !.x = 0]

\* the handler's ways of reporting: a toast (the hook has no other)
C23_Reported == toast # NoToast

\* a drag-end, on a target or on none, of a canvas item whose id the layout
\* does not hold
C23_Case ==
  /\ last.op = "end"
  /\ last.active.type = CANVAS_COMPONENT
  /\ last.active.id \notin IdsOf(last.layout)

\* C23 as stated: a canvas-item drop whose dragged id is not in the layout is
\* reported.
C23_Original == C23_Case => C23_Reported

\* C23, amended: a canvas-item drop whose dragged id is not in the layout is
\* ignored without a report: no callback, no notice, the layout and the dirty
\* flag as before, the drag state idle.
C23_MissingIdIgnored ==
  C23_Case =>
    /\ calls = <<>>
    /\ ~C23_Reported
    /\ layout = last.layout
    /\ hasUnsavedChanges = last.dirty
    /\ dragState = IdleDragState

\* such a drop on the first of two components, with insertion index 0
C23_Witness ==
  /\ C23_Case
  /\ Len(last.layout) = 2
  /\ last.insertionIndex = 0
  /\ last.over.id = last.layout[1]
  /\ calls = <<>>

\* C21 as stated: the indicator follows the geometry.  Once React has
\* settled after a drag-move sample that left an insertion index, the bar is
\* shown where that index lies on the surface as that sample met it, also
\* when the sample left the index as it was.
C21_Original ==
  (/\ Quiescent
   /\ indicator.mounted
   /\ last.op = "move"
   /\ dragState.insertionIndex # NullIndex) =>
    Shown = calculatePosition(dragState.insertionIndex, layout, surface)

\* C24 as stated: the insertion index handleDragEnd reads is the one the most
\* recent drag-move sample of the session left in the drag state, whatever
\* commits lie between the sample and the drag-end.
C24_Original ==
  [][(last.op = "move" /\ last'.op = "end") =>
       last'.insertionIndex = dragState.insertionIndex]_vars

\* C26 as stated: dropping onto oneself never reorders.  A drag-end that
\* follows a sample with the cursor on the dragged component's own box, and
\* on no other box, issues no callback.
C26_Original ==
  [][(last.op = "move" /\ last.own /\ last'.op = "end") => calls' = <<>>]_vars

\* C29: callback arguments in range.  onComponentReorder(from, to) is called
\* with from the position of the dragged id in the layout, to a position of
\* the layout and from # to; onComponentAdd(type, k) with a component type and
\* 0 <= k <= length of the layout.
C29_ArgumentsInRange ==
  last.op = "end" =>
    \A n \in 1..Len(calls) :
      /\ calls[n].fn = "onComponentReorder" =>
           /\ last.active.id \in IdsOf(last.layout)
           /\ calls[n].fromIndex = PositionOf(last.layout, last.active.id)
           /\ calls[n].toIndex \in 0..(Len(last.layout) - 1)
           /\ calls[n].fromIndex # calls[n].toIndex
      /\ calls[n].fn = "onComponentAdd" =>
           /\ calls[n].componentType \in ComponentTypes
           /\ calls[n].atIndex \in 0..Len(last.layout)

\* a library item appended to a two-item layout by insertion index
C29_Witness ==
  /\ last.op = "end"
  /\ Len(last.layout) = 2
  /\ last.insertionIndex = 2
  /\ calls = <<AddCall(last.active.componentType, 2)>>

====
